---------------------------- MODULE Spec2Model ----------------------------
(***************************************************************************)
(* Model of newrelic/internal/transform/metric.go: the transformation of   *)
(* an OpenTelemetry metric Record into a New Relic telemetry Metric.       *)
(*                                                                         *)
(*   Record               -> action Record (attributes + type switch)      *)
(*   minMaxSumCountValues -> actions aMin, aMax, aSum, aCount              *)
(*   minMaxSumCount       -> operator minMaxSumCount, action               *)
(*                           minMaxSumCountCall                            *)
(*   sum                  -> operator sum, action sumCall                  *)
(*   attributes           -> operator attributes                           *)
(*                                                                         *)
(* The accessors of the aggregation (Min, Max, Sum, Count) belong to the   *)
(* metrics SDK: each invocation returns a number or an error, chosen       *)
(* nondeterministically, and is appended to the log `calls`.               *)
(***************************************************************************)
EXTENDS Integers, Sequences, FiniteSets

VARIABLES
    pc,       \* position of the call in progress
    service,  \* Record/attributes argument: service name ("" = none)
    res,      \* Record/attributes argument: the resource's label set
    desc,     \* record.Descriptor()
    labels,   \* record.Labels()
    agg,      \* record.Aggregation(): the interfaces its dynamic type satisfies
    attrs,    \* the attribute map built by attributes()
    vals,     \* named results of minMaxSumCountValues: min, max, sum, count, err
    calls,    \* log of accessor invocations: <<[name, val, err], ...>>
    convs,    \* log of converter invocations
    metric,   \* first result of Record
    err       \* second result of Record

vars == <<pc, service, res, desc, labels, agg, attrs, vals, calls, convs, metric, err>>

-----------------------------------------------------------------------------
(* Bounds *)

\* Largest number of entries of a resource or of a label set.
MaxLen == 1

\* Accessors return numbers in 0 .. MaxNum.
MaxNum == 2

-----------------------------------------------------------------------------
(* Errors *)

NoErr == "nil"

ErrUnimplementedAgg == "unimplemented aggregator"

\* Errors an accessor of the aggregation may return.
AccessorErrors == {"ErrNoData", "ErrInconsistentType"}

-----------------------------------------------------------------------------
(* Attribute keys and values *)

serviceNameAttrKey == "service.name"

instrumentationProviderAttrKey == "instrumentation.provider"

instrumentationProviderAttrValue == "opentelemetry"

collectorNameAttrKey == "collector.name"

collectorNameAttrValue == "newrelic-opentelemetry-exporter"

\* The keys a label set may use, in the order a label.Set keeps them (sorted).
KeyOrder ==
    << "a", collectorNameAttrKey, "description",
       instrumentationProviderAttrKey, serviceNameAttrKey, "unit" >>

Keys == { KeyOrder[i] : i \in 1..Len(KeyOrder) }

KeyRank(k) == CHOOSE i \in 1..Len(KeyOrder) : KeyOrder[i] = k

\* label.Value: a type tag with a numeric or a string payload.
StringValue(s) == [vtype |-> "STRING", numeric |-> 0, stringly |-> s]

BoolValue(b) == [vtype |-> "BOOL", numeric |-> IF b THEN 1 ELSE 0, stringly |-> ""]

Values == { StringValue("v1"), BoolValue(TRUE) }

\* A Go interface{} value: its dynamic type and payload.
GoString(s) == [gotype |-> "string", num |-> 0, str |-> s]

GoBool(b) == [gotype |-> "bool", num |-> IF b THEN 1 ELSE 0, str |-> ""]

GoInt64(n) == [gotype |-> "int64", num |-> n, str |-> ""]

GoUnknown == [gotype |-> "unknownValueType", num |-> 0, str |-> ""]

\* kv.Value.AsInterface(): the payload selected by the type tag.
AsInterface(v) ==
    CASE v.vtype = "BOOL"   -> GoBool(v.numeric # 0)
      [] v.vtype = "INT64"  -> GoInt64(v.numeric)
      [] v.vtype = "STRING" -> GoString(v.stringly)
      [] OTHER              -> GoUnknown

KeyValues(keys) == [Key : keys, Value : Values]

\* label.Set / resource.Resource: entries sorted by key, keys unique.
LabelSets(keys) ==
    { s \in UNION { [1..n -> KeyValues(keys)] : n \in 0..MaxLen } :
        \A i \in 1..Len(s) : \A j \in 1..Len(s) :
            i < j => KeyRank(s[i].Key) < KeyRank(s[j].Key) }

-----------------------------------------------------------------------------
(* Descriptors and numbers *)

Int64NumberKind == "Int64NumberKind"

Float64NumberKind == "Float64NumberKind"

NumberKinds == {Int64NumberKind, Float64NumberKind}

NilDesc == [name |-> "", unit |-> "", description |-> "", kind |-> "nil"]

Descriptors ==
    [name : {"requests"}, unit : {"", "ms"}, description : {"", "d"},
     kind : NumberKinds]

\* metric.Number holds 64 raw bits; a number n below denotes the bits of int64 n.
Numbers == 0..MaxNum

\* float64(n): the float whose value is the integer n.
Float64ofInt(n) == [f |-> "int", v |-> n]

\* math.Float64frombits: the float whose bits are those of int64 n (0 is 0.0).
Float64frombits(n) == IF n = 0 THEN Float64ofInt(0) ELSE [f |-> "bits", v |-> n]

\* Number.CoerceToFloat64(kind)
CoerceToFloat64(n, kind) ==
    CASE kind = Int64NumberKind   -> Float64ofInt(n)
      [] kind = Float64NumberKind -> Float64frombits(n)
      [] OTHER                    -> Float64ofInt(0)

-----------------------------------------------------------------------------
(* attributes *)

\* A Go map with no entries.
EmptyMap == [k \in {} |-> GoUnknown]

\* m[k] = v
Put(m, k, v) == [x \in (DOMAIN m) \cup {k} |-> IF x = k THEN v ELSE m[x]]

\* for iter := set.Iter(); iter.Next(); { kv := iter.Label();
\*     attrs[string(kv.Key)] = kv.Value.AsInterface() }
RECURSIVE InsertAll(_, _, _)
InsertAll(m, set, i) ==
    IF i > Len(set)
    THEN m
    ELSE InsertAll(Put(m, set[i].Key, AsInterface(set[i].Value)), set, i + 1)

\* The capacity n the map is made with: it sizes the map and adds no entry.
attributesCap(svc, rs, d, ls) ==
    2 + Len(ls) + Len(rs)
      + (IF d # NilDesc /\ d.unit # "" THEN 1 ELSE 0)
      + (IF d # NilDesc /\ d.description # "" THEN 1 ELSE 0)
      + (IF svc # "" THEN 1 ELSE 0)

\* Mutant: the resource is iterated after the labels.
attributesLabelsFirst(svc, rs, d, ls) ==
    LET a1 == InsertAll(EmptyMap, ls, 1)
        a2 == InsertAll(a1, rs, 1)
        a3 == IF d # NilDesc /\ d.unit # ""
              THEN Put(a2, "unit", GoString(d.unit)) ELSE a2
        a4 == IF d # NilDesc /\ d.description # ""
              THEN Put(a3, "description", GoString(d.description)) ELSE a3
        a5 == IF svc # "" THEN Put(a4, serviceNameAttrKey, GoString(svc)) ELSE a4
        a6 == Put(a5, instrumentationProviderAttrKey,
                  GoString(instrumentationProviderAttrValue))
    IN  Put(a6, collectorNameAttrKey, GoString(collectorNameAttrValue))

\* Mutant: the New Relic attributes are written first, not last.
attributesProvenanceFirst(svc, rs, d, ls) ==
    LET a0 == Put(Put(EmptyMap, instrumentationProviderAttrKey,
                      GoString(instrumentationProviderAttrValue)),
                  collectorNameAttrKey, GoString(collectorNameAttrValue))
        a1 == InsertAll(a0, rs, 1)
        a2 == InsertAll(a1, ls, 1)
        a3 == IF d # NilDesc /\ d.unit # ""
              THEN Put(a2, "unit", GoString(d.unit)) ELSE a2
        a4 == IF d # NilDesc /\ d.description # ""
              THEN Put(a3, "description", GoString(d.description)) ELSE a3
    IN  IF svc # "" THEN Put(a4, serviceNameAttrKey, GoString(svc)) ELSE a4

\* Mutant: the service name is written without the test service != "".
attributesServiceAlways(svc, rs, d, ls) ==
    LET a1 == InsertAll(EmptyMap, rs, 1)
        a2 == InsertAll(a1, ls, 1)
        a3 == IF d # NilDesc /\ d.unit # ""
              THEN Put(a2, "unit", GoString(d.unit)) ELSE a2
        a4 == IF d # NilDesc /\ d.description # ""
              THEN Put(a3, "description", GoString(d.description)) ELSE a3
        a5 == Put(a4, serviceNameAttrKey, GoString(svc))
        a6 == Put(a5, instrumentationProviderAttrKey,
                  GoString(instrumentationProviderAttrValue))
    IN  Put(a6, collectorNameAttrKey, GoString(collectorNameAttrValue))

attributes(svc, rs, d, ls) ==
    LET a0 == EmptyMap
        a1 == InsertAll(a0, rs, 1)
        a2 == InsertAll(a1, ls, 1)
        a3 == IF d # NilDesc /\ d.unit # ""
              THEN Put(a2, "unit", GoString(d.unit)) ELSE a2
        a4 == IF d # NilDesc /\ d.description # ""
              THEN Put(a3, "description", GoString(d.description)) ELSE a3
        a5 == IF svc # "" THEN Put(a4, serviceNameAttrKey, GoString(svc)) ELSE a4
        a6 == Put(a5, instrumentationProviderAttrKey,
                  GoString(instrumentationProviderAttrValue))
        a7 == Put(a6, collectorNameAttrKey, GoString(collectorNameAttrValue))
    IN  a7

-----------------------------------------------------------------------------
(* Metrics and converters *)

NilMetric == [type |-> "nil"]

telemetryCount(name, as, value) ==
    [type |-> "Count", Name |-> name, Attributes |-> as, Value |-> value]

telemetrySummary(name, as, cnt, sm, mn, mx) ==
    [type |-> "Summary", Name |-> name, Attributes |-> as,
     Count |-> cnt, Sum |-> sm, Min |-> mn, Max |-> mx]

\* What an accessor invocation may return: a number, or an error.
AccessorResults ==
    [val : Numbers, err : {NoErr}] \cup [val : {0}, err : AccessorErrors]

\* Mutant: the sum is converted as an integer whatever the number kind.
sumIgnoresKind(d, as, r) ==
    IF r.err # NoErr
    THEN [metric |-> NilMetric, err |-> r.err]
    ELSE [metric |-> telemetryCount(d.name, as, Float64ofInt(r.val)),
          err    |-> NoErr]

\* sum, given the result r of a.Sum()
sum(d, as, r) ==
    IF r.err # NoErr
    THEN [metric |-> NilMetric, err |-> r.err]
    ELSE [metric |-> telemetryCount(d.name, as, CoerceToFloat64(r.val, d.kind)),
          err    |-> NoErr]

\* Mutant: the Summary is returned beside the error.
minMaxSumCountKeepsMetric(d, as, v) ==
    [metric |-> telemetrySummary(d.name, as,
                    Float64ofInt(v.count),
                    CoerceToFloat64(v.sum, d.kind),
                    CoerceToFloat64(v.min, d.kind),
                    CoerceToFloat64(v.max, d.kind)),
     err    |-> v.err]

\* Mutant: Min and Max are filled from each other's value.
minMaxSumCountSwapped(d, as, v) ==
    IF v.err # NoErr
    THEN [metric |-> NilMetric, err |-> v.err]
    ELSE [metric |-> telemetrySummary(d.name, as,
                        Float64ofInt(v.count),
                        CoerceToFloat64(v.sum, d.kind),
                        CoerceToFloat64(v.max, d.kind),
                        CoerceToFloat64(v.min, d.kind)),
          err    |-> NoErr]

\* minMaxSumCount, given the results v of minMaxSumCountValues(a)
minMaxSumCount(d, as, v) ==
    IF v.err # NoErr
    THEN [metric |-> NilMetric, err |-> v.err]
    ELSE [metric |-> telemetrySummary(d.name, as,
                        Float64ofInt(v.count),
                        CoerceToFloat64(v.sum, d.kind),
                        CoerceToFloat64(v.min, d.kind),
                        CoerceToFloat64(v.max, d.kind)),
          err    |-> NoErr]

\* The dynamic types an aggregation may have, by the interfaces they satisfy.
\* aggregation.MinMaxSumCount declares Sum(), so whatever satisfies it
\* satisfies aggregation.Sum too.
Aggregations ==
    { a \in [MinMaxSumCount : BOOLEAN, Sum : BOOLEAN] : a.MinMaxSumCount => a.Sum }

\* Mutant: whatever is no MinMaxSumCount is taken for a Sum.
typeSwitchDefaultSum(a) ==
    IF a.MinMaxSumCount THEN "minMaxSumCount" ELSE "sum"

\* Mutant: the case aggregation.Sum is missing.
typeSwitchNoSum(a) ==
    IF a.MinMaxSumCount THEN "minMaxSumCount" ELSE "none"

\* Mutant: the case aggregation.Sum comes first.
typeSwitchSumFirst(a) ==
    IF a.Sum THEN "sum"
    ELSE IF a.MinMaxSumCount THEN "minMaxSumCount"
    ELSE "none"

\* switch a := record.Aggregation().(type): the first case that matches.
typeSwitch(a) ==
    IF a.MinMaxSumCount THEN "minMaxSumCount"
    ELSE IF a.Sum THEN "sum"
    ELSE "none"

-----------------------------------------------------------------------------
(* Record: the state machine of one call after another *)

Services == {"", "checkout-api"}

\* Keys of the resources and label sets handed to Record.
RecordKeys == {"a"}

ZeroVals == [min |-> 0, max |-> 0, sum |-> 0, count |-> 0, err |-> NoErr]

Idle ==
    /\ pc = "Record"
    /\ service = ""
    /\ res = << >>
    /\ desc = NilDesc
    /\ labels = << >>
    /\ agg = [MinMaxSumCount |-> FALSE, Sum |-> FALSE]
    /\ attrs = EmptyMap
    /\ vals = ZeroVals
    /\ calls = << >>
    /\ convs = << >>
    /\ metric = NilMetric
    /\ err = NoErr

Init == Idle

\* Record, to the end of its type switch.
Record ==
    /\ pc = "Record"
    /\ \E svc \in Services, rs \in LabelSets(RecordKeys), d \in Descriptors,
          ls \in LabelSets(RecordKeys), a \in Aggregations :
        /\ service' = svc
        /\ res' = rs
        /\ desc' = d
        /\ labels' = ls
        /\ agg' = a
        /\ attrs' = attributes(svc, rs, d, ls)
        /\ CASE typeSwitch(a) = "minMaxSumCount" ->
                  /\ convs' = Append(convs, "minMaxSumCount")
                  /\ pc' = "Min"
                  /\ UNCHANGED <<metric, err>>
             [] typeSwitch(a) = "sum" ->
                  /\ convs' = Append(convs, "sum")
                  /\ pc' = "sum"
                  /\ UNCHANGED <<metric, err>>
             [] OTHER ->
                  /\ metric' = NilMetric
                  /\ err' = ErrUnimplementedAgg
                  /\ pc' = "return"
                  /\ UNCHANGED convs
    /\ UNCHANGED <<vals, calls>>

Invoke(name, r) == Append(calls, [name |-> name, val |-> r.val, err |-> r.err])

\* Mutant: a failure of a.Min() does not return.
aMinNoReturn ==
    /\ pc = "Min"
    /\ \E r \in AccessorResults :
        /\ calls' = Invoke("Min", r)
        /\ vals' = [vals EXCEPT !.min = r.val, !.err = r.err]
        /\ pc' = "Max"
    /\ UNCHANGED <<service, res, desc, labels, agg, attrs, convs, metric, err>>

\* if min, err = a.Min(); err != nil { return }
aMin ==
    /\ pc = "Min"
    /\ \E r \in AccessorResults :
        /\ calls' = Invoke("Min", r)
        /\ vals' = [vals EXCEPT !.min = r.val, !.err = r.err]
        /\ pc' = IF r.err # NoErr THEN "minMaxSumCount" ELSE "Max"
    /\ UNCHANGED <<service, res, desc, labels, agg, attrs, convs, metric, err>>

\* if max, err = a.Max(); err != nil { return }
aMax ==
    /\ pc = "Max"
    /\ \E r \in AccessorResults :
        /\ calls' = Invoke("Max", r)
        /\ vals' = [vals EXCEPT !.max = r.val, !.err = r.err]
        /\ pc' = IF r.err # NoErr THEN "minMaxSumCount" ELSE "Sum"
    /\ UNCHANGED <<service, res, desc, labels, agg, attrs, convs, metric, err>>

\* if sum, err = a.Sum(); err != nil { return }
aSum ==
    /\ pc = "Sum"
    /\ \E r \in AccessorResults :
        /\ calls' = Invoke("Sum", r)
        /\ vals' = [vals EXCEPT !.sum = r.val, !.err = r.err]
        /\ pc' = IF r.err # NoErr THEN "minMaxSumCount" ELSE "Count"
    /\ UNCHANGED <<service, res, desc, labels, agg, attrs, convs, metric, err>>

\* if count, err = a.Count(); err != nil { return }; return
aCount ==
    /\ pc = "Count"
    /\ \E r \in AccessorResults :
        /\ calls' = Invoke("Count", r)
        /\ vals' = [vals EXCEPT !.count = r.val, !.err = r.err]
        /\ pc' = "minMaxSumCount"
    /\ UNCHANGED <<service, res, desc, labels, agg, attrs, convs, metric, err>>

\* minMaxSumCount, after minMaxSumCountValues has returned.
minMaxSumCountCall ==
    /\ pc = "minMaxSumCount"
    /\ LET out == minMaxSumCount(desc, attrs, vals)
       IN  /\ metric' = out.metric
           /\ err' = out.err
    /\ pc' = "return"
    /\ UNCHANGED <<service, res, desc, labels, agg, attrs, vals, calls, convs>>

\* sum: it invokes a.Sum() and returns.
sumCall ==
    /\ pc = "sum"
    /\ \E r \in AccessorResults :
        /\ calls' = Invoke("Sum", r)
        /\ LET out == sum(desc, attrs, r)
           IN  /\ metric' = out.metric
               /\ err' = out.err
    /\ pc' = "return"
    /\ UNCHANGED <<service, res, desc, labels, agg, attrs, vals, convs>>

\* Record has returned (metric, err); nothing is kept for the next call.
Return ==
    /\ pc = "return"
    /\ pc' = "Record"
    /\ service' = ""
    /\ res' = << >>
    /\ desc' = NilDesc
    /\ labels' = << >>
    /\ agg' = [MinMaxSumCount |-> FALSE, Sum |-> FALSE]
    /\ attrs' = EmptyMap
    /\ vals' = ZeroVals
    /\ calls' = << >>
    /\ convs' = << >>
    /\ metric' = NilMetric
    /\ err' = NoErr

Next ==
    \/ Record
    \/ aMin
    \/ aMax
    \/ aSum
    \/ aCount
    \/ minMaxSumCountCall
    \/ sumCall
    \/ Return

Spec == Init /\ [][Next]_vars

-----------------------------------------------------------------------------
(* attributes as a function of its arguments *)

\* A descriptor pointer may be nil.
AttributesDescriptors == Descriptors \cup {NilDesc}

InitAttributes ==
    /\ pc = "attributes"
    /\ service \in Services
    /\ res \in LabelSets(Keys)
    /\ desc \in AttributesDescriptors
    /\ labels \in LabelSets(Keys)
    /\ agg = [MinMaxSumCount |-> FALSE, Sum |-> FALSE]
    /\ attrs = EmptyMap
    /\ vals = ZeroVals
    /\ calls = << >>
    /\ convs = << >>
    /\ metric = NilMetric
    /\ err = NoErr

attributesCall ==
    /\ pc = "attributes"
    /\ attrs' = attributes(service, res, desc, labels)
    /\ pc' = "attributes_return"
    /\ UNCHANGED <<service, res, desc, labels, agg, vals, calls, convs, metric, err>>

NextAttributes == attributesCall

SpecAttributes == InitAttributes /\ [][NextAttributes]_vars

-----------------------------------------------------------------------------
(* Claims about Record, checked under Spec *)

Supported == agg.MinMaxSumCount \/ agg.Sum

AccessorOrder == << "Min", "Max", "Sum", "Count" >>

\* C1: a record whose aggregation is neither a MinMaxSumCount nor a Sum makes
\* Record return (nil, ErrUnimplementedAgg), and no accessor is invoked.
C1_Unimplemented ==
    (pc = "return" /\ ~Supported) =>
        /\ metric = NilMetric
        /\ err = ErrUnimplementedAgg
        /\ calls = << >>

C1_Witness ==
    /\ pc = "return"
    /\ ~Supported
    /\ service # ""
    /\ Len(labels) > 0

\* C2: for a MinMaxSumCount or a Sum aggregation Record returns either a
\* metric or an error: never both, never neither.
C2_MetricXorError ==
    (pc = "return" /\ Supported) => ((metric # NilMetric) # (err # NoErr))

C2_Witness ==
    /\ pc = "return"
    /\ agg.MinMaxSumCount
    /\ Len(calls) = 3
    /\ calls[3].err # NoErr
    /\ metric = NilMetric

\* C3: the MinMaxSumCount converter invokes Min, Max, Sum, Count in that
\* order, each at most once; no accessor is invoked after one that failed,
\* and the converter then returns that accessor's error and no metric.
C3_OrderAndShortCircuit ==
    (convs = << "minMaxSumCount" >>) =>
        /\ Len(calls) <= Len(AccessorOrder)
        /\ \A i \in 1..Len(calls) : calls[i].name = AccessorOrder[i]
        /\ \A i \in 1..(Len(calls) - 1) : calls[i].err = NoErr
        /\ (pc = "return" /\ calls[Len(calls)].err # NoErr) =>
               /\ metric = NilMetric
               /\ err = calls[Len(calls)].err

C3_Witness ==
    /\ pc = "return"
    /\ convs = << "minMaxSumCount" >>
    /\ Len(calls) = 1
    /\ calls[1].name = "Min"
    /\ calls[1].err = "ErrInconsistentType"
    /\ err = "ErrInconsistentType"

\* C7: the Sum converter returns (nil, e) when Sum() fails with e, and
\* otherwise a Count metric named as the descriptor, with the sum coerced by
\* the descriptor's number kind and the attributes built for the call.
C7_SumConversion ==
    (pc = "return" /\ convs = << "sum" >>) =>
        /\ Len(calls) = 1
        /\ calls[1].name = "Sum"
        /\ IF calls[1].err # NoErr
           THEN /\ metric = NilMetric
                /\ err = calls[1].err
           ELSE /\ err = NoErr
                /\ metric.type = "Count"
                /\ metric.Name = desc.name
                /\ metric.Attributes = attrs
                /\ metric.Value = CoerceToFloat64(calls[1].val, desc.kind)

C7_Witness ==
    /\ pc = "return"
    /\ convs = << "sum" >>
    /\ calls[1].err = NoErr
    /\ calls[1].val = 2
    /\ desc.kind = Float64NumberKind
    /\ metric.type = "Count"
    /\ Len(res) > 0

\* C8: when the four accessors succeed the result is a Summary whose Min,
\* Max, Sum and Count are the values of Min(), Max(), Sum() and Count() as
\* floats, named as the descriptor, with the attributes built for the call.
C8_SummaryFields ==
    (/\ pc = "return"
     /\ convs = << "minMaxSumCount" >>
     /\ Len(calls) = 4
     /\ \A i \in 1..4 : calls[i].err = NoErr) =>
        /\ err = NoErr
        /\ metric.type = "Summary"
        /\ metric.Name = desc.name
        /\ metric.Attributes = attrs
        /\ metric.Min = CoerceToFloat64(calls[1].val, desc.kind)
        /\ metric.Max = CoerceToFloat64(calls[2].val, desc.kind)
        /\ metric.Sum = CoerceToFloat64(calls[3].val, desc.kind)
        /\ metric.Count = Float64ofInt(calls[4].val)

C8_Witness ==
    /\ pc = "return"
    /\ metric.type = "Summary"
    /\ calls[1].val = 0
    /\ calls[2].val = 2
    /\ calls[3].val = 1
    /\ calls[4].val = 2
    /\ desc.kind = Float64NumberKind

\* C9 as stated: every call of Record invokes exactly one converter,
\* whatever the kind of the aggregation.
C9_ExactlyOneConverter ==
    (pc = "return") => Len(convs) = 1

\* C9 amended: a call of Record invokes at most one converter: exactly one
\* (the MinMaxSumCount converter or the Sum converter) when the aggregation
\* is a MinMaxSumCount or a Sum, and none otherwise.
C9_OneConverterIfSupported ==
    /\ Len(convs) <= 1
    /\ (pc = "return") =>
          IF Supported
          THEN convs \in { << "minMaxSumCount" >>, << "sum" >> }
          ELSE convs = << >>

C9_Witness ==
    /\ pc = "return"
    /\ agg.Sum
    /\ ~agg.MinMaxSumCount
    /\ convs = << "sum" >>

\* C10: an aggregation that is both a MinMaxSumCount and a Sum goes to the
\* MinMaxSumCount converter only: the result is a Summary or an accessor's
\* error, never a Count.
C10_MinMaxSumCountFirst ==
    (agg.MinMaxSumCount /\ agg.Sum) =>
        /\ convs = << "minMaxSumCount" >>
        /\ pc # "sum"
        /\ (pc = "return") =>
              \/ metric.type = "Summary" /\ err = NoErr
              \/ metric = NilMetric /\ err \in AccessorErrors

C10_Witness ==
    /\ pc = "return"
    /\ agg.MinMaxSumCount
    /\ agg.Sum
    /\ metric.type = "Summary"
    /\ desc.kind = Int64NumberKind

-----------------------------------------------------------------------------
(* Claims about attributes, checked under SpecAttributes *)

HasKey(set, k) == \E i \in 1..Len(set) : set[i].Key = k

ValueOf(set, k) == set[CHOOSE i \in 1..Len(set) : set[i].Key = k].Value

HasUnit == desc # NilDesc /\ desc.unit # ""

HasDescription == desc # NilDesc /\ desc.description # ""

\* The value of key k from the highest-priority source that supplies it.
FromHighestSource(k) ==
    IF k = collectorNameAttrKey THEN GoString(collectorNameAttrValue)
    ELSE IF k = instrumentationProviderAttrKey
         THEN GoString(instrumentationProviderAttrValue)
    ELSE IF k = serviceNameAttrKey /\ service # "" THEN GoString(service)
    ELSE IF k = "description" /\ HasDescription THEN GoString(desc.description)
    ELSE IF k = "unit" /\ HasUnit THEN GoString(desc.unit)
    ELSE IF HasKey(labels, k) THEN AsInterface(ValueOf(labels, k))
    ELSE AsInterface(ValueOf(res, k))

SuppliedBySome(k) ==
    \/ k \in {collectorNameAttrKey, instrumentationProviderAttrKey}
    \/ k = serviceNameAttrKey /\ service # ""
    \/ k = "description" /\ HasDescription
    \/ k = "unit" /\ HasUnit
    \/ HasKey(labels, k)
    \/ HasKey(res, k)

\* C4: every key of the map carries the value of the highest-priority source
\* supplying it: resource < labels < unit, description < service name <
\* the two New Relic keys.
C4_Precedence ==
    (pc = "attributes_return") =>
        \A k \in DOMAIN attrs :
            /\ SuppliedBySome(k)
            /\ attrs[k] = FromHighestSource(k)

C4_Witness ==
    /\ pc = "attributes_return"
    /\ HasKey(res, "a")
    /\ HasKey(labels, "a")
    /\ ValueOf(res, "a") # ValueOf(labels, "a")
    /\ attrs["a"] = AsInterface(ValueOf(labels, "a"))

\* C5: both New Relic keys are in every map attributes returns, with their
\* constant values, also when the resource or the labels use those keys.
C5_Provenance ==
    (pc = "attributes_return") =>
        /\ instrumentationProviderAttrKey \in DOMAIN attrs
        /\ attrs[instrumentationProviderAttrKey]
             = GoString(instrumentationProviderAttrValue)
        /\ collectorNameAttrKey \in DOMAIN attrs
        /\ attrs[collectorNameAttrKey] = GoString(collectorNameAttrValue)

C5_Witness ==
    /\ pc = "attributes_return"
    /\ HasKey(res, instrumentationProviderAttrKey)
    /\ HasKey(labels, collectorNameAttrKey)

\* C6 as stated: with an empty service the map has no service-name key,
\* whatever the resource and the labels; with a non-empty service the key
\* is there with that value.
C6_ServiceKeyIffService ==
    (pc = "attributes_return") =>
        IF service = ""
        THEN serviceNameAttrKey \notin DOMAIN attrs
        ELSE /\ serviceNameAttrKey \in DOMAIN attrs
             /\ attrs[serviceNameAttrKey] = GoString(service)

\* C6 amended: with an empty service the service-name key is in the map
\* exactly when a label or a resource entry supplies it, with that entry's
\* value (the label's before the resource's); with a non-empty service the
\* key is there with that value.
C6_ServiceKey ==
    (pc = "attributes_return") =>
        IF service = ""
        THEN /\ (serviceNameAttrKey \in DOMAIN attrs) <=>
                    (HasKey(labels, serviceNameAttrKey)
                       \/ HasKey(res, serviceNameAttrKey))
             /\ HasKey(labels, serviceNameAttrKey) =>
                    attrs[serviceNameAttrKey]
                      = AsInterface(ValueOf(labels, serviceNameAttrKey))
             /\ (~HasKey(labels, serviceNameAttrKey)
                   /\ HasKey(res, serviceNameAttrKey)) =>
                    attrs[serviceNameAttrKey]
                      = AsInterface(ValueOf(res, serviceNameAttrKey))
        ELSE /\ serviceNameAttrKey \in DOMAIN attrs
             /\ attrs[serviceNameAttrKey] = GoString(service)

C6_Witness ==
    /\ pc = "attributes_return"
    /\ service = ""
    /\ HasKey(res, serviceNameAttrKey)
    /\ serviceNameAttrKey \in DOMAIN attrs

=============================================================================
